---- MODULE Spec2Model ----
(***************************************************************************)
(* Weather tool server: the tool dispatcher (weather-sse.py call_tool),    *)
(* the two tool handlers (get_alerts, get_forecast) of both server files,  *)
(* the NWS fetch with its retry decorator, the formatters and TimedCache.  *)
(***************************************************************************)
EXTENDS Integers, Sequences, FiniteSets, TLC

VARIABLES
    server,               \* which server file runs: "sse" (weather-sse.py) or "fastmcp" (weather.py)
    OPENWEATHER_API_KEY,  \* the configured key ("" when none)
    pc,                   \* position of the invocation: "idle", "await_nws", "await_ow", "done"
    name,                 \* tool name of the invocation
    arguments,            \* argument bag of the invocation
    handlerRan,           \* handler bodies entered by the invocation
    outbound,             \* outbound HTTP requests issued by the invocation, in order
    fetched,              \* values make_nws_request handed to get_alerts (with the attempt count then)
    lastOutcome,          \* outcome of the latest outbound request
    toolResult,           \* what the handler function returned or raised
    content,              \* the list call_tool returned
    escaped,              \* exception that crossed the tool boundary ("" when none)
    responses,            \* number of responses produced by the invocation
    cache,                \* TimedCache.cache
    now,                  \* datetime.now(), in seconds
    stored,               \* per key: value and time of the most recent set, time of the set before it (history)
    lastGet,              \* the TimedCache.get that just ran: key, returned value, time, entry before
    conns,                \* per SSE connection: whether it is set up, and the key its setup assigned
    calls,                \* per SSE connection: its get_forecast invocation in flight
    environ,              \* os.environ: the two variables handle_sse reads ("" when unset)
    everSupplied,         \* whether some connection setup has assigned a key (history)
    pendingSet,           \* per invocation inside TimedCache.set: the tuple it has built
    wind,                 \* the latest get_wind_direction call: bearing, index, label
    failedBefore          \* whether an earlier invocation ended in an error (history)

vars == <<server, OPENWEATHER_API_KEY, pc, name, arguments, handlerRan, outbound,
          fetched, lastOutcome, toolResult, content, escaped, responses,
          cache, now, stored, lastGet, conns, calls, environ, everSupplied, pendingSet, wind,
          failedBefore>>

toolVars == <<server, OPENWEATHER_API_KEY, pc, name, arguments, handlerRan, outbound,
              fetched, lastOutcome, toolResult, content, escaped, responses>>

cacheVars == <<cache, now, stored, lastGet>>

connVars == <<conns, calls, environ, everSupplied>>

\* what the tool invocation and the cache operations leave alone
otherVars == <<conns, calls, environ, everSupplied, pendingSet, wind>>

----------------------------------------------------------------------------
(* Bounds of the model *)

\* longest features list of an alerts payload
MaxFeatures == 2

\* latest clock reading of the cache model, in seconds
MaxNow == 600

\* SSE connections that may be open at once
NumConns == 2

\* invocations that may be inside TimedCache.set at once
NumSetters == 2

\* latest clock reading while sets race, in seconds
MaxSetNow == 200

\* largest bearing handed to get_wind_direction, in degrees either way
MaxBearing == 720

(* Program constants *)

\* stop_after_attempt(3) of the retry decorator
StopAfterAttempt == 3

\* TimedCache.__init__ default expiration_time, in seconds
ExpirationTime == 300

----------------------------------------------------------------------------
(* Python values of the argument bag *)

Absent == [t |-> "absent", n |-> 0, s |-> ""]
PyNone == [t |-> "none", n |-> 0, s |-> ""]
Num(x) == [t |-> "num", n |-> x, s |-> ""]
Str(x) == [t |-> "str", n |-> 0, s |-> x]

\* Python truthiness of a value: None, 0 and "" are falsy
Truthy(v) ==
    CASE v.t = "num" -> v.n # 0
      [] v.t = "str" -> v.s # ""
      [] OTHER -> FALSE

\* dict.get(key, default)
DictGet(d, key, default) == IF d[key].t = "absent" THEN default ELSE d[key]

StateValues == {Absent, PyNone, Str("CA"), Str("")}
LatitudeValues == {Absent, PyNone, Num(-91), Num(-90), Num(0), Num(90), Num(91), Str("abc")}
LongitudeValues == {Absent, PyNone, Num(-181), Num(-180), Num(0), Num(180), Num(181), Str("abc")}

ArgumentBags == [state : StateValues, latitude : LatitudeValues, longitude : LongitudeValues]

NoArguments == [state |-> Absent, latitude |-> Absent, longitude |-> Absent]

ToolNames == {"get_alerts", "get_forecast", "get_alert", ""}

ApiKeys == {"", "k1"}

----------------------------------------------------------------------------
(* Texts.  A text is a record: its kind (which message or template), the   *)
(* value interpolated into it, and the rendered pieces of an alerts text.  *)

NoWx == [temp |-> 0, condition |-> "", wind_speed |-> 0, wind_dir |-> "", description |-> ""]

Msg(kind, arg) == [kind |-> kind, arg |-> arg, parts |-> <<>>, wx |-> NoWx]

NoText == Msg("", "")

\* exceptions: type and str(e)
NoExc == [type |-> "", msg |-> ""]
Exc(type, msg) == [type |-> type, msg |-> msg]

\* a function's completion: a returned text or a raised exception
Returned(text) == [raised |-> FALSE, text |-> text, exc |-> NoExc]
Raised(e) == [raised |-> TRUE, text |-> NoText, exc |-> e]
Pending == [raised |-> FALSE, text |-> NoText, exc |-> NoExc]

----------------------------------------------------------------------------
(* Upstream payloads and outcomes of one outbound request *)

AlertFields == {"event", "areaDesc", "severity", "description", "instruction"}

\* a feature of the alerts payload: with or without "properties", and the
\* fields its properties hold
Feature(hasProps, fields) == [hasProps |-> hasProps, fields |-> fields]

Features ==
    { Feature(FALSE, {}),
      Feature(TRUE, {}),
      Feature(TRUE, {"event", "areaDesc"}),
      Feature(TRUE, AlertFields) }

FeatureLists == UNION { [1..n -> Features] : n \in 0..MaxFeatures }

\* a decoded JSON body of the alerts endpoint: None (JSON null) or a dict
\* with or without "features" and with or without other keys
NonePayload == [py |-> "none", hasFeatures |-> FALSE, features |-> <<>>, hasOther |-> FALSE]
DictPayload(hasFeatures, features, hasOther) ==
    [py |-> "dict", hasFeatures |-> hasFeatures, features |-> features, hasOther |-> hasOther]

NwsPayloads ==
    {NonePayload, DictPayload(FALSE, <<>>, FALSE), DictPayload(FALSE, <<>>, TRUE)}
    \cup { DictPayload(TRUE, fs, o) : fs \in FeatureLists, o \in BOOLEAN }

\* a decoded JSON body of the current-conditions endpoint
WindDegrees == {0, 45, 100, 360}

MainValues == {"absent", "empty", "temp"}
WeatherValues == {"absent", "empty_list", "empty_item", "full"}
WindValues ==
    { [present |-> FALSE, hasSpeed |-> FALSE, hasDeg |-> FALSE, deg |-> 0],
      [present |-> TRUE, hasSpeed |-> FALSE, hasDeg |-> FALSE, deg |-> 0],
      [present |-> TRUE, hasSpeed |-> TRUE, hasDeg |-> FALSE, deg |-> 0] }
    \cup { [present |-> TRUE, hasSpeed |-> TRUE, hasDeg |-> TRUE, deg |-> d] : d \in WindDegrees }

OwPayloads == [main : MainValues, weather : WeatherValues, wind : WindValues]

NoOwPayload ==
    [main |-> "absent", weather |-> "absent",
     wind |-> [present |-> FALSE, hasSpeed |-> FALSE, hasDeg |-> FALSE, deg |-> 0]]

\* what client.get / raise_for_status / response.json() do for one request:
\* a decoded body, a non-2xx status, a transport failure or another exception
Outcome(kind, status, nws, ow) == [kind |-> kind, status |-> status, nws |-> nws, ow |-> ow]

NoOutcome == Outcome("", 0, NonePayload, NoOwPayload)

FailureOutcomes ==
    { Outcome("http_status", 404, NonePayload, NoOwPayload),
      Outcome("http_status", 500, NonePayload, NoOwPayload),
      Outcome("request_error", 0, NonePayload, NoOwPayload),
      Outcome("exception", 0, NonePayload, NoOwPayload) }

NwsOutcomes == { Outcome("ok", 200, p, NoOwPayload) : p \in NwsPayloads } \cup FailureOutcomes

OwOutcomes == { Outcome("ok", 200, NonePayload, p) : p \in OwPayloads } \cup FailureOutcomes

Failed(o) == o.kind \in {"http_status", "request_error", "exception"}
----------------------------------------------------------------------------
(* The alerts fetch: make_nws_request and its retry decorator *)

\* a fetch result: a returned payload (NonePayload is Python's None) or a
\* raised exception
FetchReturn(payload) == [raised |-> FALSE, data |-> payload, exc |-> NoExc]
FetchRaise(e) == [raised |-> TRUE, data |-> NonePayload, exc |-> e]

\* the exception client.get / raise_for_status / response.json() raise
OutcomeExc(o) ==
    CASE o.kind = "http_status" -> Exc("HTTPStatusError", "status")
      [] o.kind = "request_error" -> Exc("RequestError", "transport")
      [] OTHER -> Exc("Exception", "unexpected")

\* the body of make_nws_request without its except clauses
make_nws_request_uncaught(o) ==
    IF o.kind = "ok" THEN FetchReturn(o.nws) ELSE FetchRaise(OutcomeExc(o))

\* the body of make_nws_request for one request outcome: the decoded body,
\* or None from each of the three except clauses
make_nws_request(o) ==
    CASE o.kind = "ok" -> FetchReturn(o.nws)
      [] o.kind = "http_status" -> FetchReturn(NonePayload)
      [] o.kind = "request_error" -> FetchReturn(NonePayload)
      [] OTHER -> FetchReturn(NonePayload)

\* the retry decorator: it retries only when the wrapped call raised and
\* fewer than StopAfterAttempt attempts were made.  Only weather.py decorates.
RetryWanted(srv, result, attempt) ==
    srv = "fastmcp" /\ result.raised /\ attempt < StopAfterAttempt

\* what the (decorated) fetch hands its caller once it stops
FetchFinal(srv, result) ==
    IF srv = "fastmcp" /\ result.raised
    THEN FetchRaise(Exc("RetryError", result.exc.type))
    ELSE result

----------------------------------------------------------------------------
(* Formatters *)

Piece(p, event, areaDesc, severity, description, instruction) ==
    [p |-> p, event |-> event, areaDesc |-> areaDesc, severity |-> severity,
     description |-> description, instruction |-> instruction]

\* the "\n---\n" line between two alerts
Delimiter == Piece("delim", "", "", "", "", "")

AlertsText(pieces) == [kind |-> "alerts", arg |-> "", parts |-> pieces, wx |-> NoWx]

\* props.get(field, placeholder) on the sample values of the payload
PropsGet(feature, field, value, placeholder) ==
    IF field \in feature.fields THEN value ELSE placeholder

\* feature["properties"] raises KeyError when the feature has none
format_alert(feature) ==
    IF ~feature.hasProps
    THEN Raised(Exc("KeyError", "'properties'"))
    ELSE Returned(AlertsText(<<
            Piece("alert",
                  PropsGet(feature, "event", "Flood Warning", "Unknown"),
                  PropsGet(feature, "areaDesc", "County X", "Unknown"),
                  PropsGet(feature, "severity", "Severe", "Unknown"),
                  PropsGet(feature, "description", "Rising water", "No description available"),
                  PropsGet(feature, "instruction", "Move to higher ground",
                           "No specific instructions provided")) >>))

\* "\n---\n".join(alerts)
RECURSIVE Join(_)
Join(texts) ==
    IF Len(texts) = 0 THEN <<>>
    ELSE IF Len(texts) = 1 THEN texts[1].parts
    ELSE texts[1].parts \o <<Delimiter>> \o Join(Tail(texts))

\* round(): to the nearest integer, ties to the even one
Round(num, den) ==
    LET q == num \div den
        r2 == 2 * (num % den)
    IN  IF r2 < den THEN q
        ELSE IF r2 > den THEN q + 1
        ELSE IF q % 2 = 0 THEN q ELSE q + 1

directions == <<"N", "NE", "E", "SE", "S", "SW", "W", "NW">>

\* an index taken by truncating the quotient instead of rounding it
WindIndex_Floor(degrees) == (degrees \div 45) % 8

WindIndex(degrees) == Round(degrees, 45) % 8

get_wind_direction(degrees) == directions[WindIndex(degrees) + 1]

\* format_openweather_data: data.get('weather', [{}])[0] raises IndexError
\* on an empty list, which the except clause turns into the generic text
format_openweather_data(data) ==
    IF data.weather = "empty_list"
    THEN Msg("unable_to_format", "")
    ELSE [kind |-> "weather", arg |-> "", parts |-> <<>>,
          wx |-> [temp |-> IF data.main = "temp" THEN 21 ELSE 0,
                  condition |-> IF data.weather = "full" THEN "Rain" ELSE "Unknown",
                  description |-> IF data.weather = "full" THEN "light rain"
                                  ELSE "No description available",
                  wind_speed |-> IF data.wind.hasSpeed THEN 5 ELSE 0,
                  wind_dir |-> IF data.wind.hasDeg THEN get_wind_direction(data.wind.deg)
                               ELSE "Unknown direction"]]
----------------------------------------------------------------------------
(* Handlers *)

\* "not data": None and the empty dict are falsy
DataFalsy(data) == data.py = "none" \/ (~data.hasFeatures /\ ~data.hasOther)

\* the completion of the first format_alert call that raises, if any
RECURSIVE FirstRaise(_)
FirstRaise(completions) ==
    IF Len(completions) = 0 THEN Pending
    ELSE IF completions[1].raised THEN completions[1]
    ELSE FirstRaise(Tail(completions))

\* get_alerts after the fetch returned `data`
get_alerts_body(data) ==
    IF DataFalsy(data) \/ ~data.hasFeatures
    THEN Returned(Msg("unable_to_fetch_alerts", ""))
    ELSE IF Len(data.features) = 0
    THEN Returned(Msg("no_active_alerts", ""))
    ELSE LET alerts == [i \in 1..Len(data.features) |-> format_alert(data.features[i])]
         IN  IF \E i \in 1..Len(alerts) : alerts[i].raised
             THEN FirstRaise(alerts)
             ELSE Returned(AlertsText(Join([i \in 1..Len(alerts) |-> alerts[i].text])))

\* get_alerts once the fetch has stopped: an exception of the fetch goes
\* through, a returned value is mapped to the text
get_alerts(fetch) ==
    IF fetch.raised THEN Raised(fetch.exc) ELSE get_alerts_body(fetch.data)

\* get_forecast of weather-sse.py without its last except clause
get_forecast_sse_uncaught(o) ==
    CASE o.kind = "ok" -> Returned(format_openweather_data(o.ow))
      [] o.kind = "http_status" ->
            Returned(Msg("weather_service_error", IF o.status = 404 THEN "404" ELSE "500"))
      [] o.kind = "request_error" -> Returned(Msg("weather_unavailable", ""))
      [] OTHER -> Raised(OutcomeExc(o))

\* get_forecast of weather-sse.py after its request ended with outcome o
get_forecast_sse(o) ==
    CASE o.kind = "ok" -> Returned(format_openweather_data(o.ow))
      [] o.kind = "http_status" ->
            Returned(Msg("weather_service_error", IF o.status = 404 THEN "404" ELSE "500"))
      [] o.kind = "request_error" -> Returned(Msg("weather_unavailable", ""))
      [] OTHER -> Returned(Msg("weather_unavailable", ""))

\* get_forecast of weather.py after its request ended with outcome o
get_forecast_fastmcp(o) ==
    CASE o.kind = "ok" -> Returned(format_openweather_data(o.ow))
      [] o.kind = "http_status" -> Returned(Msg("weather_unavailable", "1"))
      [] OTHER -> Returned(Msg("weather_unavailable", "2"))

\* a key check that lets every key through
KeyMissing_Never(key) == FALSE

\* the key check both get_forecast bodies start with
KeyMissing(key) == key = ""

ConfigNeeded == Msg("config_needed", "")

\* float(v): a number converts, a non-numeric string raises ValueError,
\* None raises TypeError
PyFloat(v) ==
    CASE v.t = "num" -> [ok |-> TRUE, n |-> v.n, exc |-> NoExc]
      [] v.t = "str" -> [ok |-> FALSE, n |-> 0, exc |-> Exc("ValueError", "could not convert")]
      [] OTHER -> [ok |-> FALSE, n |-> 0, exc |-> Exc("TypeError", "float() argument")]

InRange(lat, lon) == -90 <= lat /\ lat <= 90 /\ -180 <= lon /\ lon <= 180

\* validate_coordinates.wrapper up to the call of the wrapped function:
\* [call |-> TRUE] when get_forecast is entered, else the wrapper's completion
validate_coordinates(latitude, longitude) ==
    LET lat == PyFloat(latitude)
        lon == PyFloat(longitude)
        bad == IF ~lat.ok THEN lat.exc ELSE lon.exc
    IN  IF lat.ok /\ lon.ok
        THEN IF ~InRange(lat.n, lon.n)
             THEN [call |-> FALSE, done |-> Returned(Msg("invalid_lat_lon", ""))]
             ELSE [call |-> TRUE, done |-> Pending]
        ELSE IF bad.type = "ValueError"
             THEN [call |-> FALSE, done |-> Returned(Msg("coordinates_not_numbers", ""))]
             ELSE [call |-> FALSE, done |-> Raised(bad)]

----------------------------------------------------------------------------
(* The dispatcher: call_tool of weather-sse.py *)

IsNone(v) == v.t \in {"absent", "none"}

\* the except clause of call_tool
CallToolExcept_Reraise(e) == [content |-> <<>>, escaped |-> e]

CallToolExcept(e) == [content |-> <<Msg("error", e.msg)>>, escaped |-> NoExc]

\* call_tool's return for a handler completion
CallToolReturn(completion) ==
    IF completion.raised
    THEN CallToolExcept(completion.exc)
    ELSE [content |-> <<completion.text>>, escaped |-> NoExc]

\* call_tool testing the coordinates with "not" instead of "is None"
CallToolBranch_FalsyCoordinates(n, a) ==
    IF n = "get_alerts"
    THEN IF ~Truthy(DictGet(a, "state", Str("")))
         THEN [to |-> "reply", text |-> Msg("missing_state", "")]
         ELSE [to |-> "get_alerts", text |-> NoText]
    ELSE IF n = "get_forecast"
    THEN IF ~Truthy(a.latitude) \/ ~Truthy(a.longitude)
         THEN [to |-> "reply", text |-> Msg("missing_lat_lon", "")]
         ELSE [to |-> "get_forecast", text |-> NoText]
    ELSE [to |-> "reply", text |-> Msg("unknown_tool", n)]

\* call_tool with get_forecast as its last, unconditional branch
CallToolBranch_ElseForecast(n, a) ==
    IF n = "get_alerts"
    THEN IF ~Truthy(DictGet(a, "state", Str("")))
         THEN [to |-> "reply", text |-> Msg("missing_state", "")]
         ELSE [to |-> "get_alerts", text |-> NoText]
    ELSE IF IsNone(a.latitude) \/ IsNone(a.longitude)
         THEN [to |-> "reply", text |-> Msg("missing_lat_lon", "")]
         ELSE [to |-> "get_forecast", text |-> NoText]

\* the branch call_tool takes for a name and an argument bag:
\* "reply" with a text, or the handler it awaits
CallToolBranch(n, a) ==
    IF n = "get_alerts"
    THEN IF ~Truthy(DictGet(a, "state", Str("")))
         THEN [to |-> "reply", text |-> Msg("missing_state", "")]
         ELSE [to |-> "get_alerts", text |-> NoText]
    ELSE IF n = "get_forecast"
    THEN IF IsNone(a.latitude) \/ IsNone(a.longitude)
         THEN [to |-> "reply", text |-> Msg("missing_lat_lon", "")]
         ELSE [to |-> "get_forecast", text |-> NoText]
    ELSE [to |-> "reply", text |-> Msg("unknown_tool", n)]
----------------------------------------------------------------------------
(* TimedCache *)

CacheKeys == {"k1", "k2"}
CacheValues == {"v1", "v2"}

\* the clock advances by one of these between two operations
Deltas == {100, 150}

NoEntry == [present |-> FALSE, data |-> "", timestamp |-> 0]
Entry(value, t) == [present |-> TRUE, data |-> value, timestamp |-> t]

\* self.cache[key], or NoEntry when key is not in the dict
Lookup(c, key) == IF key \in DOMAIN c THEN c[key] ELSE NoEntry

\* TimedCache.set: self.cache[key] = (value, datetime.now())
TimedCacheSet_KeepTimestamp(c, key, value, t) ==
    [x \in DOMAIN c \cup {key} |->
        IF x = key THEN Entry(value, IF key \in DOMAIN c THEN c[key].timestamp ELSE t)
        ELSE c[x]]

TimedCacheSet(c, key, value, t) ==
    [x \in DOMAIN c \cup {key} |-> IF x = key THEN Entry(value, t) ELSE c[x]]

\* TimedCache.get at time t: the value returned (hit) or None, and the dict
\* afterwards
TimedCacheGet_Inclusive(c, key, t) ==
    IF key \in DOMAIN c
    THEN IF t - c[key].timestamp <= ExpirationTime
         THEN [hit |-> TRUE, ret |-> c[key].data, cache |-> c]
         ELSE [hit |-> FALSE, ret |-> "", cache |-> [x \in DOMAIN c \ {key} |-> c[x]]]
    ELSE [hit |-> FALSE, ret |-> "", cache |-> c]

\* a get that also drops every other expired entry
TimedCacheGet_Sweep(c, key, t) ==
    LET live == {x \in DOMAIN c : t - c[x].timestamp < ExpirationTime}
    IN  IF key \in live
        THEN [hit |-> TRUE, ret |-> c[key].data, cache |-> [x \in live |-> c[x]]]
        ELSE [hit |-> FALSE, ret |-> "", cache |-> [x \in live |-> c[x]]]

TimedCacheGet(c, key, t) ==
    IF key \in DOMAIN c
    THEN IF t - c[key].timestamp < ExpirationTime
         THEN [hit |-> TRUE, ret |-> c[key].data, cache |-> c]
         ELSE [hit |-> FALSE, ret |-> "", cache |-> [x \in DOMAIN c \ {key} |-> c[x]]]
    ELSE [hit |-> FALSE, ret |-> "", cache |-> c]

NoGet == [called |-> FALSE, key |-> "", hit |-> FALSE, ret |-> "", at |-> 0, before |-> NoEntry]

----------------------------------------------------------------------------
(* SSE connections, racing sets and wind bearings: the state they add *)

Conns == 1..NumConns
Setters == 1..NumSetters

\* a connection that is not set up
NoConn == [open |-> FALSE, supplied |-> ""]

\* no get_forecast invocation in flight on the connection
NoCall == [pc |-> "idle", keyRead |-> "", text |-> NoText]

\* an invocation that is not inside TimedCache.set
NoPending == [active |-> FALSE, key |-> "", value |-> "", t |-> 0]

\* neither variable set
NoEnviron == [openweather_api_key |-> "", OPENWEATHER_API_KEY |-> ""]

NoWind == [called |-> FALSE, degrees |-> 0, index |-> 0, label |-> ""]

----------------------------------------------------------------------------
(* One tool invocation at a time, from its call to its response *)

Servers == {"sse", "fastmcp"}

\* no invocation, connection or cache entry yet
Idle ==
    /\ pc = "idle"
    /\ name = ""
    /\ arguments = NoArguments
    /\ handlerRan = {}
    /\ outbound = <<>>
    /\ fetched = <<>>
    /\ lastOutcome = NoOutcome
    /\ toolResult = Pending
    /\ content = <<>>
    /\ escaped = NoExc
    /\ responses = 0
    /\ cache = [k \in {} |-> 0]
    /\ now = 0
    /\ stored = [k \in {} |-> 0]
    /\ lastGet = NoGet
    /\ conns = [c \in Conns |-> NoConn]
    /\ calls = [c \in Conns |-> NoCall]
    /\ everSupplied = FALSE
    /\ pendingSet = [i \in Setters |-> NoPending]
    /\ wind = NoWind
    /\ failedBefore = FALSE

Init ==
    /\ server \in Servers
    /\ OPENWEATHER_API_KEY \in ApiKeys
    /\ environ = NoEnviron
    /\ Idle

\* the invocation ends with the handler completion `res`: call_tool wraps
\* it (weather-sse.py); in weather.py the tool function's completion is
\* what the framework gets
Respond(res) ==
    /\ toolResult' = res
    /\ content' = IF server = "sse" THEN CallToolReturn(res).content ELSE <<>>
    /\ escaped' = IF server = "sse" THEN CallToolReturn(res).escaped ELSE NoExc
    /\ responses' = responses + 1
    /\ pc' = "done"

\* call_tool(name, arguments) of weather-sse.py up to its first await of
\* the network, or to its return when it makes no request
CallTool(n, a) ==
    /\ pc = "idle"
    /\ server = "sse"
    /\ name' = n
    /\ arguments' = a
    /\ LET b == CallToolBranch(n, a)
       IN  CASE b.to = "reply" ->
                  /\ toolResult' = Pending
                  /\ content' = <<b.text>>
                  /\ escaped' = NoExc
                  /\ responses' = responses + 1
                  /\ pc' = "done"
                  /\ UNCHANGED <<handlerRan, outbound>>
             [] b.to = "get_alerts" ->
                  /\ handlerRan' = handlerRan \cup {"get_alerts"}
                  /\ outbound' = Append(outbound, "nws")
                  /\ pc' = "await_nws"
                  /\ UNCHANGED <<toolResult, content, escaped, responses>>
             [] OTHER ->
                  /\ handlerRan' = handlerRan \cup {"get_forecast"}
                  /\ IF KeyMissing(OPENWEATHER_API_KEY)
                     THEN Respond(Returned(ConfigNeeded)) /\ UNCHANGED outbound
                     ELSE /\ outbound' = Append(outbound, "openweather")
                          /\ pc' = "await_ow"
                          /\ UNCHANGED <<toolResult, content, escaped, responses>>
    /\ UNCHANGED <<server, OPENWEATHER_API_KEY, fetched, lastOutcome, cacheVars, otherVars, failedBefore>>

\* the get_alerts tool of weather.py, called with `state`, up to its request
GetAlertsTool(state) ==
    /\ pc = "idle"
    /\ server = "fastmcp"
    /\ name' = "get_alerts"
    /\ arguments' = [NoArguments EXCEPT !.state = state]
    /\ handlerRan' = handlerRan \cup {"get_alerts"}
    /\ outbound' = Append(outbound, "nws")
    /\ pc' = "await_nws"
    /\ UNCHANGED <<server, OPENWEATHER_API_KEY, fetched, lastOutcome, toolResult,
                   content, escaped, responses, cacheVars, otherVars, failedBefore>>

\* the get_forecast tool of weather.py (validate_coordinates around
\* get_forecast), up to its request or to its return
GetForecastTool(latitude, longitude) ==
    /\ pc = "idle"
    /\ server = "fastmcp"
    /\ name' = "get_forecast"
    /\ arguments' = [NoArguments EXCEPT !.latitude = latitude, !.longitude = longitude]
    /\ LET v == validate_coordinates(latitude, longitude)
       IN  IF ~v.call
           THEN Respond(v.done) /\ UNCHANGED <<handlerRan, outbound>>
           ELSE /\ handlerRan' = handlerRan \cup {"get_forecast"}
                /\ IF KeyMissing(OPENWEATHER_API_KEY)
                   THEN Respond(Returned(ConfigNeeded)) /\ UNCHANGED outbound
                   ELSE /\ outbound' = Append(outbound, "openweather")
                        /\ pc' = "await_ow"
                        /\ UNCHANGED <<toolResult, content, escaped, responses>>
    /\ UNCHANGED <<server, OPENWEATHER_API_KEY, fetched, lastOutcome, cacheVars, otherVars, failedBefore>>

\* one request of the alerts fetch ends with outcome o: make_nws_request
\* returns or raises, the retry decorator decides, and when the fetch stops
\* get_alerts and its caller run to the response
NwsResponse(o) ==
    /\ pc = "await_nws"
    /\ lastOutcome' = o
    /\ LET r == make_nws_request(o)
           attempt == Len(outbound)
       IN  IF RetryWanted(server, r, attempt)
           THEN /\ outbound' = Append(outbound, "nws")
                /\ UNCHANGED <<pc, fetched, toolResult, content, escaped, responses>>
           ELSE /\ fetched' = Append(fetched, [result |-> FetchFinal(server, r),
                                               attempts |-> attempt])
                /\ Respond(get_alerts(FetchFinal(server, r)))
                /\ UNCHANGED outbound
    /\ UNCHANGED <<server, OPENWEATHER_API_KEY, name, arguments, handlerRan, cacheVars, otherVars, failedBefore>>

\* the current-conditions request ends with outcome o and get_forecast
\* runs to its return
OwResponse(o) ==
    /\ pc = "await_ow"
    /\ lastOutcome' = o
    /\ Respond(IF server = "sse" THEN get_forecast_sse(o) ELSE get_forecast_fastmcp(o))
    /\ UNCHANGED <<server, OPENWEATHER_API_KEY, name, arguments, handlerRan, outbound,
                   fetched, cacheVars, otherVars, failedBefore>>

\* the kinds of the texts that report an error
ErrorKinds ==
    {"error", "missing_state", "missing_lat_lon", "unknown_tool", "config_needed",
     "invalid_lat_lon", "coordinates_not_numbers", "unable_to_fetch_alerts",
     "unable_to_format", "weather_unavailable", "weather_service_error"}

\* the invocation that has just completed ended in an error
EndedInError ==
    \/ toolResult.raised
    \/ toolResult.text.kind \in ErrorKinds
    \/ \E i \in 1..Len(content) : content[i].kind \in ErrorKinds

\* the response is delivered and the server waits for the next invocation
NextInvocation ==
    /\ pc = "done"
    /\ pc' = "idle"
    /\ name' = ""
    /\ arguments' = NoArguments
    /\ handlerRan' = {}
    /\ outbound' = <<>>
    /\ fetched' = <<>>
    /\ lastOutcome' = NoOutcome
    /\ toolResult' = Pending
    /\ content' = <<>>
    /\ escaped' = NoExc
    /\ responses' = 0
    /\ failedBefore' = (failedBefore \/ EndedInError)
    /\ UNCHANGED <<server, OPENWEATHER_API_KEY, cacheVars, otherVars>>

Next ==
    \/ \E n \in ToolNames, a \in ArgumentBags : CallTool(n, a)
    \/ \E s \in StateValues \ {Absent} : GetAlertsTool(s)
    \/ \E lat \in LatitudeValues \ {Absent}, lon \in LongitudeValues \ {Absent} :
          GetForecastTool(lat, lon)
    \/ \E o \in NwsOutcomes : NwsResponse(o)
    \/ \E o \in OwOutcomes : OwResponse(o)
    \/ NextInvocation

Spec == Init /\ [][Next]_vars

\* every outbound request ends: it succeeds, fails or runs into the
\* client's 30 s timeout
SpecLive ==
    /\ Init /\ [][Next]_vars
    /\ WF_vars(\E o \in NwsOutcomes : NwsResponse(o))
    /\ WF_vars(\E o \in OwOutcomes : OwResponse(o))
----------------------------------------------------------------------------
(* TimedCache under set, get and the passage of time *)

InitCache == Init /\ server = "fastmcp" /\ OPENWEATHER_API_KEY = ""

\* when key was set before, or -1 when it never was (history)
LastSetAt(h, key) == IF key \in DOMAIN h THEN h[key].timestamp ELSE -1

\* weather_cache.set(key, value)
Set(key, value) ==
    /\ cache' = TimedCacheSet(cache, key, value, now)
    /\ stored' = [x \in DOMAIN stored \cup {key} |->
                    IF x = key
                    THEN [data |-> value, timestamp |-> now, prev |-> LastSetAt(stored, key)]
                    ELSE stored[x]]
    /\ lastGet' = NoGet
    /\ UNCHANGED <<now, toolVars, otherVars, failedBefore>>

\* weather_cache.get(key)
Get(key) ==
    /\ LET g == TimedCacheGet(cache, key, now)
       IN  /\ cache' = g.cache
           /\ lastGet' = [called |-> TRUE, key |-> key, hit |-> g.hit, ret |-> g.ret,
                          at |-> now, before |-> Lookup(cache, key)]
    /\ UNCHANGED <<now, stored, toolVars, otherVars, failedBefore>>

\* time passes
Tick(d) ==
    /\ now + d <= MaxNow
    /\ now' = now + d
    /\ lastGet' = NoGet
    /\ UNCHANGED <<cache, stored, toolVars, otherVars, failedBefore>>

NextCache ==
    \/ \E k \in CacheKeys, v \in CacheValues : Set(k, v)
    \/ \E k \in CacheKeys : Get(k)
    \/ \E d \in Deltas : Tick(d)

SpecCache == InitCache /\ [][NextCache]_vars
----------------------------------------------------------------------------
(* Properties *)

KnownTools == {"get_alerts", "get_forecast"}

\* the invocation went through call_tool and has its response
Answered == server = "sse" /\ pc = "done"

\* C1: every call_tool invocation, whatever the name and the argument bag,
\* returns a list of exactly one text item and lets no exception cross the
\* tool-call boundary; an exception raised by the handler becomes the error
\* text carrying its message.
C1_SingleTextNoEscape ==
    Answered =>
        /\ Len(content) = 1
        /\ escaped = NoExc
        /\ responses = 1
        /\ toolResult.raised => content[1] = Msg("error", toolResult.exc.msg)

\* a handler raised (format_alert on a feature without properties) and the
\* caller got the one error text
C1_Witness ==
    /\ Answered
    /\ toolResult.raised
    /\ toolResult.exc.type = "KeyError"
    /\ content = <<Msg("error", "'properties'")>>

\* the alerts fetch of the invocation has stopped after its latest request failed
FetchGaveUp == pc = "done" /\ Len(fetched) >= 1 /\ Failed(lastOutcome)

\* C2: the alerts fetch makes at most 3 attempts per invocation, and a failed
\* attempt is followed by another while fewer than 3 were made: a fetch that
\* stops on a failure has made exactly 3 attempts.
C2_ThreeAttemptsOnFailure ==
    /\ Len(outbound) <= StopAfterAttempt
    /\ FetchGaveUp => Len(outbound) = StopAfterAttempt

\* C3: the "no data" outcome of a failing fetch reaches get_alerts exactly
\* once and only after the third failed attempt, never after the first or the
\* second, and the invocation produces a single response.
C3_NoDataOnceAfterLastAttempt ==
    /\ Len(fetched) <= 1
    /\ responses <= 1
    /\ \A i \in 1..Len(fetched) :
          (Failed(lastOutcome) /\ fetched[i].result.data = NonePayload)
              => fetched[i].attempts = StopAfterAttempt

\* age of the latest stored entry of the key that get just read
AgeAtGet == lastGet.at - stored[lastGet.key].timestamp

\* C4: get(k) never returns a value whose age is at or past the expiration
\* window; at or past it, get(k) returns absent and k is no longer in the cache.
C4_NeverReturnsExpired ==
    (lastGet.called /\ lastGet.key \in DOMAIN stored) =>
        /\ lastGet.hit => AgeAtGet < ExpirationTime
        /\ AgeAtGet >= ExpirationTime =>
              (~lastGet.hit /\ lastGet.key \notin DOMAIN cache)

\* a get exactly at the window's end found the entry, returned absent and
\* removed it
C4_Witness ==
    /\ lastGet.called
    /\ lastGet.before.present
    /\ lastGet.at - lastGet.before.timestamp = ExpirationTime
    /\ ~lastGet.hit
    /\ lastGet.key \notin DOMAIN cache

\* C5: get(k) before the window has elapsed since the most recent set(k, v)
\* returns that v: a later set replaces the value and restarts the age.
C5_ReturnsLatestSet ==
    (lastGet.called /\ lastGet.key \in DOMAIN stored /\ AgeAtGet < ExpirationTime) =>
        /\ lastGet.hit
        /\ lastGet.ret = stored[lastGet.key].data

\* a key set twice is read after the window of its first value would have
\* ended, and get returns the second value
C5_Witness ==
    /\ lastGet.called
    /\ lastGet.hit
    /\ lastGet.key \in DOMAIN stored
    /\ stored[lastGet.key].prev >= 0
    /\ lastGet.at - stored[lastGet.key].prev >= ExpirationTime
    /\ lastGet.ret = stored[lastGet.key].data

IsNum(v) == v.t = "num"

\* the invocation is a get_forecast call with numeric coordinates outside
\* the closed ranges
OutOfRangeCall ==
    /\ pc # "idle"
    /\ name = "get_forecast"
    /\ IsNum(arguments.latitude) /\ IsNum(arguments.longitude)
    /\ \/ arguments.latitude.n < -90 \/ arguments.latitude.n > 90
       \/ arguments.longitude.n < -180 \/ arguments.longitude.n > 180

\* the text the invocation was answered with
AnswerText == IF server = "sse" THEN content[1] ELSE toolResult.text

\* C6: a get_forecast call with a latitude outside [-90, 90] or a longitude
\* outside [-180, 180] is answered with the invalid-coordinates text and the
\* forecast handler body does not run.
C6_OutOfRangeRejected ==
    OutOfRangeCall =>
        /\ "get_forecast" \notin handlerRan
        /\ outbound = <<>>
        /\ pc = "done"
        /\ AnswerText = Msg("invalid_lat_lon", "")

\* a required argument is missing: not in the bag, or null
NotSupplied(v) == v.t \in {"absent", "none"}
StateMissing(a) == NotSupplied(a.state)
CoordinateMissing(a) == NotSupplied(a.latitude) \/ NotSupplied(a.longitude)

MissingTexts == {Msg("missing_state", ""), Msg("missing_lat_lon", "")}

\* C7 as stated: a missing required argument is answered with the
\* validation text and no handler runs, and an argument that is present is
\* never treated as missing.
C7_PresentNeverMissing ==
    (Answered /\ name \in KnownTools) =>
        /\ (name = "get_alerts" /\ StateMissing(arguments)) =>
              (content = <<Msg("missing_state", "")>> /\ handlerRan = {})
        /\ (name = "get_forecast" /\ CoordinateMissing(arguments)) =>
              (content = <<Msg("missing_lat_lon", "")>> /\ handlerRan = {})
        /\ content[1] \in MissingTexts =>
              IF name = "get_alerts" THEN StateMissing(arguments)
              ELSE CoordinateMissing(arguments)

\* what call_tool takes for a missing state: one that is missing, or
\* present and empty
StateRefused(a) == StateMissing(a) \/ a.state = Str("")
CoordinateRefused(a) == CoordinateMissing(a)

\* C7 (amended): call_tool answers get_alerts with the missing-state text,
\* running no handler, exactly when state is missing or present but the
\* empty string, and get_forecast with the missing-coordinates
\* text, running no handler, exactly when latitude or longitude is missing;
\* a present latitude or longitude, 0 included, reaches the handler.
C7_MissingOrEmptyRefused ==
    (server = "sse" /\ pc # "idle" /\ name \in KnownTools) =>
        LET refused == IF name = "get_alerts" THEN StateRefused(arguments)
                       ELSE CoordinateRefused(arguments)
            text == IF name = "get_alerts" THEN Msg("missing_state", "")
                    ELSE Msg("missing_lat_lon", "")
        IN  /\ refused => (pc = "done" /\ content = <<text>> /\ handlerRan = {}
                           /\ outbound = <<>>)
            /\ ~refused => (handlerRan = {name}
                            /\ (pc = "done" => content[1] \notin MissingTexts))

\* get_forecast without its longitude is refused, and no handler ran
C7_Witness ==
    /\ Answered
    /\ name = "get_forecast"
    /\ arguments.latitude = Num(0)
    /\ arguments.longitude = Absent
    /\ content = <<Msg("missing_lat_lon", "")>>
    /\ handlerRan = {}

\* C8: call_tool with a name other than get_alerts and get_forecast answers
\* with the unknown-tool text carrying that name, whatever the arguments,
\* and runs no handler.
C8_UnknownToolRefused ==
    (server = "sse" /\ pc # "idle" /\ name \notin KnownTools) =>
        /\ pc = "done"
        /\ content = <<Msg("unknown_tool", name)>>
        /\ handlerRan = {}
        /\ outbound = <<>>
        /\ escaped = NoExc

\* an unknown name with a full, valid argument bag is refused
C8_Witness ==
    /\ Answered
    /\ name = "get_alert"
    /\ arguments = [state |-> Str("CA"), latitude |-> Num(0), longitude |-> Num(0)]
    /\ content = <<Msg("unknown_tool", "get_alert")>>
    /\ handlerRan = {}

\* the alerts handler has completed
AlertsDone == pc = "done" /\ "get_alerts" \in handlerRan /\ Len(fetched) = 1

\* C9: get_alerts maps the fetch outcome to exactly one of three results:
\* no data or no features field gives the unable-to-fetch text, an empty
\* features list the no-active-alerts text, a non-empty list the formatted
\* alerts, one per feature, joined by the delimiter; a failed fetch never
\* gives the no-active-alerts text.
C9_ThreeResults ==
    AlertsDone =>
        LET data == fetched[1].result.data
            text == toolResult.text
        IN  /\ ~toolResult.raised
            /\ (data.py = "none" \/ ~data.hasFeatures) => text = Msg("unable_to_fetch_alerts", "")
            /\ (data.hasFeatures /\ Len(data.features) = 0) => text = Msg("no_active_alerts", "")
            /\ (data.hasFeatures /\ Len(data.features) > 0) =>
                  /\ text.kind = "alerts"
                  /\ Len(text.parts) = 2 * Len(data.features) - 1
                  /\ \A i \in 1..Len(data.features) :
                        format_alert(data.features[i]).text.parts = <<text.parts[2 * i - 1]>>
                  /\ \A i \in 1..(Len(data.features) - 1) : text.parts[2 * i] = Delimiter
            /\ Failed(lastOutcome) => text # Msg("no_active_alerts", "")

\* C10: the alerts fetch never propagates a failure: after a non-2xx status,
\* a transport failure or any other exception it returns None to its caller.
C10_FetchNeverRaises ==
    \A i \in 1..Len(fetched) :
        /\ ~fetched[i].result.raised
        /\ Failed(lastOutcome) => fetched[i].result = FetchReturn(NonePayload)

\* a request ended in an exception that is neither a status nor a transport
\* error, and get_alerts got None
C10_Witness ==
    /\ Len(fetched) = 1
    /\ lastOutcome.kind = "exception"
    /\ fetched[1].result = FetchReturn(NonePayload)
    /\ toolResult = Returned(Msg("unable_to_fetch_alerts", ""))

\* the forecast handler body has completed
ForecastDone == pc = "done" /\ "get_forecast" \in handlerRan

\* the texts get_forecast answers a failed request with: the service is
\* unavailable, or (weather-sse.py, on a status error) the service error
\* with its status code
ServiceFailureKinds == {"weather_unavailable", "weather_service_error"}

\* C11: without a configured key get_forecast returns the
\* configuration-needed message and sends nothing; with a key it returns the
\* formatted conditions when the request succeeds and a service-failure
\* message when it fails (status, transport or any other exception); it
\* never raises.
C11_ForecastOutcomes ==
    ForecastDone =>
        /\ ~toolResult.raised
        /\ KeyMissing(OPENWEATHER_API_KEY) =>
              (toolResult.text = ConfigNeeded /\ outbound = <<>>)
        /\ ~KeyMissing(OPENWEATHER_API_KEY) =>
              /\ outbound = <<"openweather">>
              /\ lastOutcome.kind = "ok" =>
                    /\ toolResult.text.kind \in {"weather", "unable_to_format"}
                    /\ lastOutcome.ow.weather # "empty_list" =>
                          /\ toolResult.text.kind = "weather"
                          /\ lastOutcome.ow.main = "temp" => toolResult.text.wx.temp = 21
              /\ Failed(lastOutcome) => toolResult.text.kind \in ServiceFailureKinds

\* with a key, the request ended in an exception that is neither a status
\* nor a transport error, and get_forecast returned the unavailable text
C11_Witness ==
    /\ ForecastDone
    /\ server = "sse"
    /\ OPENWEATHER_API_KEY # ""
    /\ lastOutcome.kind = "exception"
    /\ toolResult = Returned(Msg("weather_unavailable", ""))

\* C12: format_alert and format_openweather_data return a text and never
\* raise, whatever fields the payload lacks (a feature without properties,
\* an empty weather list, no main, weather or wind): a missing field is
\* rendered as its placeholder, an internal error as the generic text.
C12_FormattersNeverRaise ==
    /\ AlertsDone =>
          \A i \in 1..Len(fetched[1].result.data.features) :
              LET feature == fetched[1].result.data.features[i]
                  out == format_alert(feature)
              IN  /\ ~out.raised
                  /\ Len(out.text.parts) = 1
                  /\ "event" \notin feature.fields => out.text.parts[1].event = "Unknown"
    /\ (ForecastDone /\ lastOutcome.kind = "ok") =>
          /\ ~toolResult.raised
          /\ toolResult.text.kind \in {"weather", "unable_to_format"}
          /\ (toolResult.text.kind = "weather" /\ ~lastOutcome.ow.wind.hasDeg) =>
                toolResult.text.wx.wind_dir = "Unknown direction"

\* the call is a get_forecast whose coordinates are both supplied and at
\* least one is a non-numeric string
NonNumericCall ==
    /\ pc # "idle"
    /\ name = "get_forecast"
    /\ ~NotSupplied(arguments.latitude) /\ ~NotSupplied(arguments.longitude)
    /\ arguments.latitude.t = "str" \/ arguments.longitude.t = "str"

\* C15: a get_forecast call whose latitude or longitude is present but not
\* numeric is answered with the coordinates-must-be-numbers text, and no
\* outbound request is made for it.
C15_NonNumericRejected ==
    NonNumericCall =>
        /\ pc = "done"
        /\ outbound = <<>>
        /\ AnswerText = Msg("coordinates_not_numbers", "")

\* the texts of the calls that are refused before any handler work
RefusalTexts == MissingTexts \cup {ConfigNeeded, Msg("unknown_tool", name)}

\* C19: an outbound request is issued only for a known tool whose required
\* arguments are in the bag and, for get_forecast, with a configured key;
\* a call answered with the unknown-tool, missing-argument or
\* configuration-needed text has issued none.
C19_RequestsOnlyWhenValid ==
    /\ outbound # <<>> =>
          /\ name \in KnownTools
          /\ name = "get_alerts" => arguments.state.t # "absent"
          /\ name = "get_forecast" =>
                /\ arguments.latitude.t # "absent"
                /\ arguments.longitude.t # "absent"
                /\ OPENWEATHER_API_KEY # ""
          /\ server = "sse" =>
                IF name = "get_alerts" THEN ~StateRefused(arguments)
                ELSE ~CoordinateRefused(arguments)
    /\ (pc = "done" /\ AnswerText \in RefusalTexts /\ ~toolResult.raised) => outbound = <<>>

\* get_forecast with valid arguments and no key is answered with the
\* configuration-needed text, and nothing was sent
C19_Witness ==
    /\ Answered
    /\ name = "get_forecast"
    /\ arguments.latitude = Num(0) /\ arguments.longitude = Num(0)
    /\ OPENWEATHER_API_KEY = ""
    /\ content = <<ConfigNeeded>>
    /\ outbound = <<>>

\* nothing of an earlier invocation is left
FreshInvocation ==
    /\ name = "" /\ arguments = NoArguments
    /\ handlerRan = {} /\ outbound = <<>> /\ fetched = <<>>
    /\ lastOutcome = NoOutcome /\ toolResult = Pending
    /\ content = <<>> /\ escaped = NoExc /\ responses = 0

\* C14: every invocation that waits for an outbound request eventually gets
\* its response, exactly one, with no exception escaping; after any
\* invocation, failed or not, the server takes the next one, which starts
\* from nothing the earlier one left.
C14_AlwaysAnsweredAndServing ==
    /\ [](pc \in {"await_nws", "await_ow"} => <>(pc = "done"))
    /\ [](pc = "done" => (responses = 1 /\ escaped = NoExc /\ ENABLED NextInvocation))
    /\ []((pc = "done" /\ server = "sse") => Len(content) = 1)
    /\ [](pc = "idle" => FreshInvocation)

\* after an invocation that ended in an error, a later invocation was
\* taken and answered with formatted alerts
C14_Witness ==
    /\ failedBefore
    /\ Answered
    /\ responses = 1
    /\ ~toolResult.raised
    /\ content[1].kind = "alerts"

\* the keys whose entry differs between two dicts
ChangedKeys(c, d) == {k \in CacheKeys : Lookup(c, k) # Lookup(d, k)}

Expired(c, k, t) == k \in DOMAIN c /\ t - c[k].timestamp >= ExpirationTime

\* C17: an entry leaves the cache only in get(k), only for that k and only
\* when expired; get(k) of a live entry changes nothing, get(k) of an
\* expired or absent k changes no other key, set(k, v) changes the entry of
\* k only, and the passage of time alone removes nothing.
C17_LazyEvictionOnly ==
    [][ /\ Cardinality(ChangedKeys(cache, cache')) <= 1
        /\ \A k \in CacheKeys :
              (k \in DOMAIN cache /\ k \notin DOMAIN cache') =>
                  /\ lastGet'.called /\ lastGet'.key = k
                  /\ Expired(cache, k, now)
        /\ lastGet'.called =>
              /\ ChangedKeys(cache, cache') \subseteq {lastGet'.key}
              /\ lastGet'.hit => cache' = cache
              /\ DOMAIN cache' \subseteq DOMAIN cache
        /\ now' # now => cache' = cache
      ]_vars

\* a get has just run on one key while another key's entry, expired and
\* never read since, is still in the cache
C17_Witness ==
    /\ lastGet.called
    /\ \E k \in CacheKeys \ {lastGet.key} : Expired(cache, k, now)

\* ---------------------------------------------------------------------
\* get_wind_direction on integer bearings
\* ---------------------------------------------------------------------

Bearings == (0 - MaxBearing)..MaxBearing

InitWind == Init /\ server = "fastmcp" /\ OPENWEATHER_API_KEY = ""

\* get_wind_direction(d)
Convert(d) ==
    /\ wind' = [called |-> TRUE, degrees |-> d,
                index |-> WindIndex(d), label |-> get_wind_direction(d)]
    /\ UNCHANGED <<server, OPENWEATHER_API_KEY, toolVars, cacheVars, connVars,
                   pendingSet, failedBefore>>

NextWind == \E d \in Bearings : Convert(d)

SpecWind == InitWind /\ [][NextWind]_vars

Abs(x) == IF x < 0 THEN 0 - x ELSE x

\* the multiples of 45 that can be nearest to a bearing
Turns == (0 - (MaxBearing \div 45 + 1))..(MaxBearing \div 45 + 1)

\* C16: for every integer bearing the index is in 0..7, it is the multiple
\* of 45 nearest to the bearing taken mod 8 (an integer bearing is never
\* half way between two multiples), the label is the one at that index,
\* and 0 gives 0, 360 gives 0, 45 gives 1.
C16_WindIndexRoundedMod8 ==
    wind.called =>
        /\ wind.index \in 0..7
        /\ wind.label = directions[wind.index + 1]
        /\ \E q \in Turns :
              /\ 2 * Abs(wind.degrees - 45 * q) < 45
              /\ wind.index = q % 8
        /\ wind.degrees = 0 => wind.index = 0
        /\ wind.degrees = 360 => wind.index = 0
        /\ wind.degrees = 45 => wind.index = 1

\* a bearing just below a full turn rounds up and wraps to the first label
C16_Witness ==
    /\ wind.called
    /\ wind.degrees = 340
    /\ wind.index = 0
    /\ wind.label = "N"

\* ---------------------------------------------------------------------
\* concurrent TimedCache.set calls for one key
\* ---------------------------------------------------------------------

\* the key the concurrent callers write
SetKey == "k1"

InitSets == Init /\ server = "fastmcp" /\ OPENWEATHER_API_KEY = ""

\* caller i evaluates the right-hand side (value, datetime.now())
SetEnter(i, value) ==
    /\ ~pendingSet[i].active
    /\ pendingSet' = [pendingSet EXCEPT
                        ![i] = [active |-> TRUE, key |-> SetKey,
                                value |-> value, t |-> now]]
    /\ UNCHANGED <<server, OPENWEATHER_API_KEY, toolVars, cacheVars, connVars,
                   wind, failedBefore>>

\* caller i stores its tuple: self.cache[key] = ...
SetStore(i) ==
    /\ pendingSet[i].active
    /\ LET p == pendingSet[i]
       IN  /\ cache' = TimedCacheSet(cache, p.key, p.value, p.t)
           /\ stored' = [x \in DOMAIN stored \cup {p.key} |->
                           IF x = p.key
                           THEN [data |-> p.value, timestamp |-> p.t,
                                 prev |-> LastSetAt(stored, p.key)]
                           ELSE stored[x]]
    /\ pendingSet' = [pendingSet EXCEPT ![i] = NoPending]
    /\ UNCHANGED <<server, OPENWEATHER_API_KEY, toolVars, now, lastGet, connVars,
                   wind, failedBefore>>

\* time passes between the steps of the callers
TickSets(d) ==
    /\ now + d <= MaxSetNow
    /\ now' = now + d
    /\ UNCHANGED <<server, OPENWEATHER_API_KEY, toolVars, cache, stored, lastGet,
                   otherVars, failedBefore>>

NextSets ==
    \/ \E i \in Setters, v \in CacheValues : SetEnter(i, v)
    \/ \E i \in Setters : SetStore(i)
    \/ \E d \in Deltas : TickSets(d)

SpecSets == InitSets /\ [][NextSets]_vars

\* C18: with several set calls for one key in flight, the cache holds for
\* the key one whole entry: after each store the entry is the value and
\* the timestamp of the call that stored, it stays so until the next
\* store, and so it is always the pair of the store that executed last.
C18_LastWriterWinsWhole ==
    /\ [](SetKey \in DOMAIN cache =>
             /\ SetKey \in DOMAIN stored
             /\ cache[SetKey] = Entry(stored[SetKey].data, stored[SetKey].timestamp))
    /\ [](DOMAIN cache \subseteq {SetKey})
    /\ [][ /\ \A i \in Setters :
                 (pendingSet[i].active /\ ~pendingSet'[i].active) =>
                     cache'[SetKey] = Entry(pendingSet[i].value, pendingSet[i].t)
           /\ (\A i \in Setters : pendingSet[i].active => pendingSet'[i].active) =>
                 cache' = cache
         ]_vars

\* two calls overlapped: the one that stored last had taken its timestamp
\* before the other one, and a third value is still on its way
C18_Witness ==
    /\ SetKey \in DOMAIN cache
    /\ stored[SetKey].prev > stored[SetKey].timestamp
    /\ cache[SetKey].timestamp = stored[SetKey].timestamp
    /\ \E i \in Setters : pendingSet[i].active /\ pendingSet[i].value # cache[SetKey].data

\* ---------------------------------------------------------------------
\* weather-sse.py with several SSE connections: handle_sse and the
\* get_forecast invocations of the connections, interleaved
\* ---------------------------------------------------------------------

\* keys that clients put in the URL, /sse/<key>
RequestKeys == {"kA", "kB"}

\* os.environ as far as handle_sse and line 22 read it
Environs == [openweather_api_key : {"", "e1"}, OPENWEATHER_API_KEY : {"", "e2"}]

\* request paths the two routes accept, as the "/sse" or "/sse/" prefix
\* followed by what comes after it
Paths == {<<"/sse">>, <<"/sse/">>} \cup {<<"/sse/", k>> : k \in RequestKeys}

\* Route("/sse") gives no path parameter, Route("/sse/{api_key:path}") gives
\* the rest of the path, which may be empty; api_key is "" for both None
\* and the empty string, which `if api_key:` does not tell apart
PathParams(path) ==
    IF path[1] = "/sse/"
    THEN [has |-> TRUE, api_key |-> IF Len(path) > 1 THEN path[2] ELSE ""]
    ELSE [has |-> FALSE, api_key |-> ""]

Request(path) == [path_params |-> PathParams(path), path |-> path]

\* path.startswith(prefix)
StartsWith(path, prefix) == Len(path) >= 1 /\ path[1] = prefix

\* path.split(sep): the pieces between the occurrences of sep
RECURSIVE Split(_, _)
Split(path, sep) ==
    IF path = <<>> THEN << <<>> >>
    ELSE IF Head(path) = sep THEN << <<>> >> \o Split(Tail(path), sep)
    ELSE LET r == Split(Tail(path), sep)
         IN  << <<Head(path)>> \o Head(r) >> \o Tail(r)

\* a piece as a string ("" for the empty piece)
PieceText(piece) == IF piece = <<>> THEN "" ELSE piece[1]

\* the loop over api_keys_to_try: the first truthy one, "" when none
FirstTruthy(keys) ==
    LET truthy == {i \in 1..Len(keys) : keys[i] # ""}
    IN  IF truthy = {} THEN ""
        ELSE keys[CHOOSE i \in truthy : \A j \in truthy : i <= j]

\* a setup that assigns the path parameter of the keyed route as it is
handle_sse_unchecked(key, request, env) ==
    IF request.path_params.has THEN request.path_params.api_key
    ELSE LET found == FirstTruthy(<<env.openweather_api_key, env.OPENWEATHER_API_KEY,
                                    env.openweather_api_key>>)
         IN  IF found # "" THEN found ELSE key

\* handle_sse up to connect_sse: the value of the global afterwards
handle_sse(key, request, env) ==
    LET api_key == request.path_params.api_key
    IN  IF api_key # "" THEN api_key
        ELSE IF StartsWith(request.path, "/sse/")
        THEN LET path_parts == Split(request.path, "/sse/")
             IN  IF Len(path_parts) > 1 /\ PieceText(path_parts[2]) # ""
                 THEN PieceText(path_parts[2])
                 ELSE key
        ELSE LET found == FirstTruthy(<<env.openweather_api_key, env.OPENWEATHER_API_KEY,
                                        env.openweather_api_key>>)
             IN  IF found # "" THEN found ELSE key

\* the single-invocation variables, which the connections leave alone
invocationVars == <<server, pc, name, arguments, handlerRan, outbound, fetched,
                    lastOutcome, toolResult, content, escaped, responses>>

\* the answers of the forecast service the connections' calls get
ConcOutcomes ==
    {o \in OwOutcomes :
        \/ o.kind \in {"http_status", "request_error"} /\ o.status # 404
        \/ o.kind = "ok" /\ o.ow.main = "temp" /\ o.ow.weather = "full"
             /\ ~o.ow.wind.present}

InitConc ==
    /\ server = "sse"
    /\ environ \in Environs
    /\ OPENWEATHER_API_KEY = environ.openweather_api_key
    /\ Idle

\* a client connects on `path`: handle_sse runs to connect_sse
HandleSse(c, path) ==
    /\ ~conns[c].open
    /\ LET request == Request(path)
       IN  /\ OPENWEATHER_API_KEY' = handle_sse(OPENWEATHER_API_KEY, request, environ)
           /\ conns' = [conns EXCEPT
                           ![c] = [open |-> TRUE, supplied |-> request.path_params.api_key]]
           /\ everSupplied' = (everSupplied \/ request.path_params.api_key # "")
    /\ UNCHANGED <<invocationVars, cacheVars, calls, environ, pendingSet, wind, failedBefore>>

\* the client goes away: app.run and connect_sse end
Disconnect(c) ==
    /\ conns[c].open
    /\ calls[c].pc = "idle"
    /\ conns' = [conns EXCEPT ![c] = NoConn]
    /\ UNCHANGED <<invocationVars, OPENWEATHER_API_KEY, cacheVars, calls, environ,
                   everSupplied, pendingSet, wind, failedBefore>>

\* get_forecast starts on connection c: it reads the global, and either
\* returns the configuration text or builds the URL with the key and awaits
ForecastCall(c) ==
    /\ conns[c].open
    /\ calls[c].pc = "idle"
    /\ calls' = [calls EXCEPT
                    ![c] = IF KeyMissing(OPENWEATHER_API_KEY)
                           THEN [pc |-> "done", keyRead |-> "", text |-> ConfigNeeded]
                           ELSE [pc |-> "await_ow", keyRead |-> OPENWEATHER_API_KEY,
                                 text |-> NoText]]
    /\ UNCHANGED <<invocationVars, OPENWEATHER_API_KEY, cacheVars, conns, environ,
                   everSupplied, pendingSet, wind, failedBefore>>

\* the request of connection c's call ends with outcome o
ForecastResponse(c, o) ==
    /\ calls[c].pc = "await_ow"
    /\ calls' = [calls EXCEPT
                    ![c] = [pc |-> "done", keyRead |-> calls[c].keyRead,
                            text |-> get_forecast_sse(o).text]]
    /\ UNCHANGED <<invocationVars, OPENWEATHER_API_KEY, cacheVars, conns, environ,
                   everSupplied, pendingSet, wind, failedBefore>>

\* the answer of connection c's call is sent
CallReturn(c) ==
    /\ calls[c].pc = "done"
    /\ calls' = [calls EXCEPT ![c] = NoCall]
    /\ UNCHANGED <<invocationVars, OPENWEATHER_API_KEY, cacheVars, conns, environ,
                   everSupplied, pendingSet, wind, failedBefore>>

NextConc ==
    \/ \E c \in Conns, path \in Paths : HandleSse(c, path)
    \/ \E c \in Conns : Disconnect(c)
    \/ \E c \in Conns : ForecastCall(c)
    \/ \E c \in Conns, o \in ConcOutcomes : ForecastResponse(c, o)
    \/ \E c \in Conns : CallReturn(c)

SpecConc == InitConc /\ [][NextConc]_vars

\* C13: with several connections and invocations in flight, the key a
\* get_forecast invocation reads is not changed by a different connection:
\* an invocation on a connection that brought its own key in the URL sends
\* its request with that key.
C13_KeyReadIsOwnConnections ==
    \A c \in Conns :
        (calls[c].pc = "await_ow" /\ conns[c].supplied # "") =>
            calls[c].keyRead = conns[c].supplied

\* C20: a connection setup either replaces the process-wide key by a
\* non-empty value or leaves it unchanged, so a non-empty key never
\* becomes empty, and a get_forecast call that starts after some
\* connection supplied a key never answers with the configuration text.
C20_KeyNeverCleared ==
    [][ /\ OPENWEATHER_API_KEY' # OPENWEATHER_API_KEY => OPENWEATHER_API_KEY' # ""
        /\ OPENWEATHER_API_KEY # "" => OPENWEATHER_API_KEY' # ""
        /\ \A c \in Conns :
              (calls[c].pc = "idle" /\ calls'[c].text = ConfigNeeded) => ~everSupplied
      ]_vars

\* the only connection now set up came without a key, on the keyed route
\* or the plain one, and its call goes out with the key an earlier
\* connection supplied
C20_Witness ==
    \E c \in Conns :
        /\ conns[c].open
        /\ conns[c].supplied = ""
        /\ \A d \in Conns \ {c} : ~conns[d].open
        /\ calls[c].pc = "await_ow"
        /\ calls[c].keyRead \in RequestKeys
        /\ OPENWEATHER_API_KEY = calls[c].keyRead

====
